---- MODULE Spec2Model ----
(***************************************************************************)
(* Relationship inference of the course / ENISA profile graph builders.    *)
(*                                                                         *)
(* One behaviour follows one program slice, named by the variable script:  *)
(*   "similarity"  create_neo4j_graph.py: course nodes, cosine similarity  *)
(*                 matrix, get_top_similar_courses, SIMILAR_TO edges       *)
(*   "attributes"  the attribute extraction and edge creation of both      *)
(*                 builders, and the shared-attribute query of the ENISA   *)
(*                 builder                                                 *)
(*   "integrate"   integrate_graphs.py: keyword matching of profile        *)
(*                 attributes against course texts                         *)
(*   "gap_query"   integrate_graphs.py: the skill gap query                *)
(*   "pathway"     integrate_graphs.py: the learning pathway query         *)
(*   "parse"       the cell parsers of both builders                       *)
(*   "build"       the batched node and edge writes of the ENISA builder   *)
(*   "embed"       create_embeddings.py, and create_neo4j_graph.py on the  *)
(*                 files it wrote                                          *)
(*                                                                         *)
(* A score is held as a pair <<num, den>>, den > 0, standing for           *)
(* sgn(c) * c^2 of the cosine c: an order- and equality-preserving image   *)
(* of the cosine that stays rational for integer vectors.  Python indices  *)
(* are kept 0-based; positions in TLA+ sequences are 1-based.              *)
(***************************************************************************)
EXTENDS Integers, Sequences, FiniteSets, TLC

\* ---------------------------------------------------------------- bounds
MaxRows == 3
MaxTopK == 2
MaxDocs == 2        \* rows of the dataset the attribute slice reads
MaxThreshold == 2   \* --skill-similarity-threshold / --knowledge-similarity-threshold
MaxBatch == 2       \* --batch-size
MaxEdges == 2       \* attribute edges of the store the integration runs on
MaxCourses == 1     \* Course nodes of the store the integration runs on
MaxGapEdges == 3    \* attribute edges of the store the gap queries run on
MaxPathCourses == 21 \* Course nodes with a TAUGHT_IN edge in that store
MaxLen == 3         \* characters of a cell the parsers are given
MaxList == 2        \* elements of a list cell
MaxResubmits == 1   \* batch calls that are repeated in one run
MaxCols == 2        \* selected text columns of the dataset create_embeddings reads
MaxSample == 2      \* --sample

\* ---------------------------------------------------------------- inputs
\* Embedding vectors the runs draw from (dimension 2).
Vectors == { <<1, 0>>, <<1, 1>>, <<-1, 1>> }

\* --similarity-threshold values, as sgn(t) * t^2:  -0.7071.., 0, 0.5 (the default)
Thresholds == { <<-1, 2>>, <<0, 1>>, <<1, 4>> }

\* Attribute cells the dataset rows draw from, each already split at its
\* separators (newlines or commas) into stripped segments; "" is a blank
\* segment.  <<>> is a missing or empty cell.
Cells == { <<>>, <<"s1">>, <<"s2">>, <<"s1", "s2">>, <<"s2", "s1">>, <<"s1", "s1">>,
           <<"s1", "", "s2", "s2">> }

\* The attribute columns the builders turn into edges: extracted_skills of the
\* course dataset; key_skills, key_knowledge and deliverables of the ENISA
\* dataset.  The four pipelines are copies of one another and share no data.
Kinds == { "course_skill", "profile_skill", "profile_knowledge", "profile_deliverable" }

\* The kinds for which the ENISA builder runs a shared-attribute query.
SharedKinds == { "profile_skill", "profile_knowledge" }

\* Names of the attribute nodes of the store the integration runs on, as
\* sequences of characters: "ab", "B", "c".  The builders strip every name.
Names == { <<"a", "b">>, <<"B">>, <<"c">> }

\* Title and description of the Course nodes the integration runs on.
CourseTexts ==
    { [ title |-> <<"A", "b">>, description |-> <<>> ],
      [ title |-> <<"a">>, description |-> <<"b">> ],
      [ title |-> <<"c">>, description |-> <<"c">> ],
      [ title |-> <<"b">>, description |-> <<"B", "a", " ">> ] }

VARIABLES
    script,             \* the program slice this behaviour follows
    pc,                 \* position in the program
    error,              \* "none", or the exception that ended the program
    embeddings,         \* rows of the loaded .npy matrix
    finite,             \* FALSE: the matrix holds a NaN or an Inf
    metadata_rows,      \* number of rows of the metadata csv
    top_k,              \* --top-k
    threshold,          \* --similarity-threshold
    similarity_matrix,  \* [0..N-1 -> [0..N-1 -> score]]
    i,                  \* the next row of the outer loop of get_top_similar_courses
    sorted_indices,     \* np.argsort(scores)[::-1] of the row scanned last
    similar_courses,    \* the list get_top_similar_courses builds
    similarity_rels,    \* SIMILAR_TO records handed to the store
    kind,               \* the attribute column followed
    cells,              \* per dataset row, the items of its attribute cell
    node_id,            \* the store's id() of the node of each row
    attr_threshold,     \* threshold of the shared-attribute query
    batch_size,         \* --batch-size
    idx,                \* row index of the extraction loop
    relationships,      \* course_skills / profile_skills / ... list
    all_attrs,          \* all_skills / all_knowledge / all_deliverables
    attr_nodes,         \* attribute nodes in the store (MERGE by name)
    offset,             \* offset of the next batch of relationships
    edges,              \* attribute edges in the store, in creation order
    shared_edges,       \* SHARES_..._WITH edges in the store
    num_profiles,       \* Profile nodes in the store of the integration
    courses,            \* Course nodes in the store of the integration
    profile_course,     \* RELEVANT_COURSE / TEACHES_KNOWLEDGE edges
    attr_course,        \* TAUGHT_IN / COVERED_IN edges
    exit_status,        \* exit status of the integration, -1 while it runs
    closed,             \* integrator.close() has run
    from_profile,       \* current / from profile of a gap query
    to_profile,         \* target / to profile of a gap query
    skill_gap,          \* names of the rows get_skill_gap / get_knowledge_gap returns
    missing_skills,     \* pathway['missing_skills']
    recommended_courses, \* rows of pathway['recommended_courses']
    raw_cells,          \* per dataset row, the value of its attribute cell as read
    parser,             \* the parser the rows are given to
    parsed_items,       \* what the parser returned for the row read last
    node_count,         \* per natural key, the Course / Profile nodes in the store
    unique_keys,        \* the store holds the uniqueness constraint on that key
    skills_list,        \* list(all_skills) / knowledge_list / deliverables_list
    submitted,          \* the batch calls made so far, in order
    resubmits,          \* how many of them repeated the call before
    text_cells,         \* per dataset row, how many of the selected cells hold text
    mode,               \* --mode of create_embeddings
    sample,             \* --sample of create_embeddings
    texts,              \* the texts create_embeddings prepares
    meta_rows,          \* their metadata rows
    metadata            \* the metadata frame the graph builder loads

simVars == << embeddings, finite, metadata_rows, top_k, threshold,
              similarity_matrix, i, sorted_indices,
              similar_courses, similarity_rels >>

attrVars == << kind, cells, node_id, attr_threshold, batch_size, idx,
               relationships, all_attrs, attr_nodes, offset, edges, shared_edges >>

intVars == << num_profiles, courses, profile_course, attr_course, exit_status, closed >>

qryVars == << from_profile, to_profile, skill_gap, missing_skills, recommended_courses >>

parseVars == << raw_cells, parser, parsed_items >>

buildVars == << node_count, unique_keys, skills_list, submitted, resubmits >>

embedVars == << text_cells, mode, sample, texts, meta_rows, metadata >>

vars == << script, pc, error, simVars, attrVars, intVars, qryVars, parseVars, buildVars,
           embedVars >>

\* ---------------------------------------------------------------- helpers
RECURSIVE SeqsUpTo(_, _)
SeqsUpTo(S, n) ==
    IF n = 0 THEN { <<>> }
    ELSE LET shorter == SeqsUpTo(S, n - 1)
         IN  shorter \cup { Append(s, x) : s \in { t \in shorter : Len(t) = n - 1 }, x \in S }

Range(s) == { s[p] : p \in 1..Len(s) }

Reverse(s) == [ p \in 1..Len(s) |-> s[Len(s) + 1 - p] ]

\* ---------------------------------------------------------------- scores
Lt(a, b) == a[1] * b[2] < b[1] * a[2]
Le(a, b) == a[1] * b[2] <= b[1] * a[2]
Eq(a, b) == a[1] * b[2] = b[1] * a[2]

Dot(u, v) == u[1] * v[1] + u[2] * v[2]

\* sklearn cosine_similarity: rows are L2-normalised (a zero row is left as it
\* is, so every score with it is 0), then multiplied.
Cosine(u, v) ==
    LET d  == Dot(u, v)
        nu == Dot(u, u)
        nv == Dot(v, v)
    IN  IF nu = 0 \/ nv = 0 THEN <<0, 1>>
        ELSE << (IF d < 0 THEN -1 ELSE 1) * d * d, nu * nv >>

NumRows == Len(embeddings)

RowIndices == 0 .. NumRows - 1

CosineSimilarity(emb) ==
    [ a \in 0 .. Len(emb) - 1 |-> [ b \in 0 .. Len(emb) - 1 |-> Cosine(emb[a + 1], emb[b + 1]) ] ]

\* np.argsort(scores): a permutation of the indices that puts the scores in
\* ascending order.  The default kind is not stable, so the order of equal
\* scores is any.
ArgSort(scores) ==
    LET ix == DOMAIN scores
    IN  { p \in [ 1 .. Cardinality(ix) -> ix ] :
            /\ \A a, b \in 1 .. Cardinality(ix) : a # b => p[a] # p[b]
            /\ \A a \in 1 .. Cardinality(ix) - 1 : Le(scores[p[a]], scores[p[a + 1]]) }

\* sorted_indices = np.argsort(scores)[::-1]
SortedAscending(scores) == ArgSort(scores)
SortedIndices(scores) == { Reverse(p) : p \in ArgSort(scores) }

\* The guards of the inner loop of get_top_similar_courses.
IsSelfNever(a, b) == FALSE
IsSelf(a, b) == a = b

BelowThresholdLe(s, t) == Le(s, t)
BelowThreshold(s, t) == Lt(s, t)

ReachedTopKGt(c, k) == c > k
ReachedTopK(c, k) == c >= k

\* ---------------------------------------------------------------- Init
\* The variables of a slice the behaviour does not follow.
SimIdle ==
    /\ embeddings = <<>>
    /\ finite = TRUE
    /\ metadata_rows = 0
    /\ top_k = 0
    /\ threshold = <<0, 1>>
    /\ similarity_matrix = <<>>
    /\ i = 0
    /\ sorted_indices = <<>>
    /\ similar_courses = <<>>
    /\ similarity_rels = <<>>

AttrIdle ==
    /\ kind = "none"
    /\ cells = <<>>
    /\ node_id = <<>>
    /\ attr_threshold = 0
    /\ batch_size = 1
    /\ idx = 0
    /\ relationships = <<>>
    /\ all_attrs = {}
    /\ attr_nodes = {}
    /\ offset = 0
    /\ edges = <<>>
    /\ shared_edges = {}

IntIdle ==
    /\ num_profiles = 0
    /\ courses = <<>>
    /\ profile_course = {}
    /\ attr_course = {}
    /\ exit_status = -1
    /\ closed = FALSE

QryIdle ==
    /\ from_profile = 0
    /\ to_profile = 0
    /\ skill_gap = <<>>
    /\ missing_skills = <<>>
    /\ recommended_courses = {}

ParseIdle ==
    /\ raw_cells = <<>>
    /\ parser = "none"
    /\ parsed_items = <<>>

BuildIdle ==
    /\ node_count = <<>>
    /\ unique_keys = TRUE
    /\ skills_list = <<>>
    /\ submitted = <<>>
    /\ resubmits = 0

EmbedIdle ==
    /\ text_cells = <<>>
    /\ mode = "none"
    /\ sample = 0
    /\ texts = <<>>
    /\ meta_rows = <<>>
    /\ metadata = <<>>

InitSimilarity ==
    /\ script = "similarity"
    /\ pc = "prepare_courses"
    /\ error = "none"
    /\ EmbedIdle
    /\ embeddings \in SeqsUpTo(Vectors, MaxRows)
    /\ finite \in BOOLEAN
    /\ metadata_rows \in { n \in 0 .. MaxRows + 1 : n - Len(embeddings) \in { -1, 0, 1 } }
    /\ top_k \in 0 .. MaxTopK
    /\ threshold \in Thresholds
    /\ similarity_matrix = <<>>
    /\ i = 0
    /\ sorted_indices = <<>>
    /\ similar_courses = <<>>
    /\ similarity_rels = <<>>
    /\ AttrIdle
    /\ IntIdle
    /\ QryIdle
    /\ ParseIdle
    /\ BuildIdle

NumDocs == Len(cells)

Docs == 0 .. NumDocs - 1

\* The store gives every node an id of its own; the ids are in creation order
\* or not (ids of deleted nodes are reused).
NodeIds(n) == { [ d \in 0 .. n - 1 |-> d ], [ d \in 0 .. n - 1 |-> n - 1 - d ] }

InitAttributes ==
    /\ script = "attributes"
    /\ pc = "extract"
    /\ error = "none"
    /\ EmbedIdle
    /\ SimIdle
    /\ kind \in Kinds
    /\ cells \in SeqsUpTo(Cells, MaxDocs) \ { <<>> }
    /\ IF kind \in SharedKinds
         THEN /\ node_id \in NodeIds(Len(cells))
              /\ attr_threshold \in 0 .. MaxThreshold
         ELSE /\ node_id = [ d \in 0 .. Len(cells) - 1 |-> d ]
              /\ attr_threshold = 0
    /\ batch_size \in 1 .. MaxBatch
    /\ idx = 0
    /\ relationships = <<>>
    /\ all_attrs = {}
    /\ attr_nodes = {}
    /\ offset = 0
    /\ edges = <<>>
    /\ shared_edges = {}
    /\ IntIdle
    /\ QryIdle
    /\ ParseIdle
    /\ BuildIdle

\* The kinds of attribute the integration matches against the courses: Skill
\* nodes (unless --skip-skill-matching) and Knowledge nodes (unless
\* --skip-knowledge-matching).  The two passes are copies of one another and
\* write different relation types; a behaviour follows one.
MatchKinds == { "skill", "knowledge" }

\* The integration starts on a store the builders have filled: Profile nodes,
\* attribute nodes, attribute edges (an edge may exist twice) and Course nodes.
InitIntegrate ==
    /\ script = "integrate"
    /\ pc = "check_graphs"
    /\ error = "none"
    /\ EmbedIdle
    /\ SimIdle
    /\ kind \in MatchKinds
    /\ num_profiles \in 0 .. MaxDocs
    /\ edges \in SeqsUpTo([ source : 0 .. num_profiles - 1, attr : Names ], MaxEdges)
    /\ attr_nodes = Names
    /\ courses \in SeqsUpTo(CourseTexts, MaxCourses)
    /\ cells = <<>>
    /\ node_id = <<>>
    /\ attr_threshold = 0
    /\ batch_size = 1
    /\ idx = 0
    /\ relationships = <<>>
    /\ all_attrs = {}
    /\ offset = 0
    /\ shared_edges = {}
    /\ profile_course = {}
    /\ attr_course = {}
    /\ exit_status = -1
    /\ closed = FALSE
    /\ QryIdle
    /\ ParseIdle
    /\ BuildIdle

Init == InitSimilarity \/ InitAttributes \/ InitIntegrate

\* ---------------------------------------------------------------- similarity
\* main: the course nodes are built from the metadata rows, each reading
\* embeddings[idx]; a metadata row past the matrix raises IndexError.
PrepareCourses ==
    /\ script = "similarity" /\ pc = "prepare_courses"
    /\ IF metadata_rows > NumRows
         THEN /\ error' = "IndexError"
              /\ pc' = "done"
         ELSE /\ error' = error
              /\ pc' = "compute_similarity"
    /\ UNCHANGED << qryVars, parseVars, buildVars, script, simVars, attrVars, intVars, embedVars >>

\* compute_similarity_matrix: sklearn's input check refuses a matrix with a
\* non-finite value or with no row (ValueError).
ComputeSimilarityMatrix ==
    /\ script = "similarity" /\ pc = "compute_similarity"
    /\ IF ~finite \/ NumRows = 0
         THEN /\ error' = "ValueError"
              /\ pc' = "done"
              /\ UNCHANGED similarity_matrix
         ELSE /\ similarity_matrix' = CosineSimilarity(embeddings)
              /\ pc' = "row"
              /\ UNCHANGED error
    /\ UNCHANGED << qryVars, parseVars, buildVars, attrVars, intVars, script, embeddings, finite, metadata_rows, top_k, threshold,
                    i, sorted_indices, similar_courses, similarity_rels, embedVars >>

\* The inner loop of get_top_similar_courses over row a from position p of the
\* scan order, with cnt triples appended so far: the triples it appends.
RECURSIVE ScanFrom(_, _, _, _)
ScanFrom(a, order, p, cnt) ==
    IF p > Len(order) THEN <<>>                                         \* for j in sorted_indices
    ELSE IF IsSelf(a, order[p]) THEN ScanFrom(a, order, p + 1, cnt)     \* continue
    ELSE IF BelowThreshold(similarity_matrix[a][order[p]], threshold) THEN <<>>   \* break
    ELSE IF ReachedTopK(cnt, top_k) THEN <<>>                           \* break
    ELSE << << a, order[p], similarity_matrix[a][order[p]] >> >>
            \o ScanFrom(a, order, p + 1, cnt + 1)

\* One pass of the outer loop: scores of row i, their scan order, count = 0 and
\* the inner loop.
ScanRow ==
    /\ script = "similarity" /\ pc = "row" /\ i < NumRows
    /\ \E order \in SortedIndices(similarity_matrix[i]) :
          /\ sorted_indices' = order
          /\ similar_courses' = similar_courses \o ScanFrom(i, order, 1, 0)
    /\ i' = i + 1
    /\ UNCHANGED << qryVars, parseVars, buildVars, attrVars, intVars, script, pc, error, embeddings, finite, metadata_rows,
                    top_k, threshold, similarity_matrix, similarity_rels, embedVars >>

\* return similar_courses; main turns the triples into SIMILAR_TO records and
\* submits them.
CreateSimilarityRelationships ==
    /\ script = "similarity" /\ pc = "row" /\ i >= NumRows
    /\ similarity_rels' = similar_courses
    /\ pc' = "done"
    /\ UNCHANGED << qryVars, parseVars, buildVars, attrVars, intVars, script, error, embeddings, finite, metadata_rows, top_k, threshold,
                    similarity_matrix, i, sorted_indices, similar_courses, embedVars >>

\* ---------------------------------------------------------------- attributes
\* parse_skills / parse_multiline_field on the segments of a cell: the blank
\* segments are dropped, every other one is kept, in order.
NotBlank(seg) == seg # ""

ParseItems(cell) == SelectSeq(cell, NotBlank)

\* The records one row adds to the relationships list: one per parsed item.
RowRelationships(d, items) == [ n \in 1 .. Len(items) |-> [ source |-> d, attr |-> items[n] ] ]

\* for idx, row in df.iterrows(): parse the cell, add every item to the set of
\* attributes and append one relationship record per item.
ExtractRow ==
    /\ script = "attributes" /\ pc = "extract" /\ idx < NumDocs
    /\ LET items == ParseItems(cells[idx + 1])
       IN  /\ all_attrs' = all_attrs \cup Range(items)
           /\ relationships' = relationships \o RowRelationships(idx, items)
    /\ idx' = idx + 1
    /\ UNCHANGED << qryVars, parseVars, buildVars, intVars, script, pc, error, simVars, kind, cells, node_id, attr_threshold,
                    batch_size, attr_nodes, offset, edges, shared_edges, embedVars >>

\* batch_create_skills / _knowledge / _deliverables over list(all_...): MERGE
\* creates each attribute node once.
CreateAttributeNodes ==
    /\ script = "attributes" /\ pc = "extract" /\ idx >= NumDocs
    /\ attr_nodes' = attr_nodes \cup all_attrs
    /\ pc' = "create_edges"
    /\ UNCHANGED << qryVars, parseVars, buildVars, intVars, script, error, simVars, kind, cells, node_id, attr_threshold,
                    batch_size, idx, relationships, all_attrs, offset, edges, shared_edges, embedVars >>

\* relationships[b : b + batch_size]
Batch(list, from, size) ==
    SubSeq(list, from + 1, IF from + size <= Len(list) THEN from + size ELSE Len(list))

\* batch_create_..._relationships: UNWIND the batch; both endpoints exist, so
\* CREATE adds one edge per record.
CreateEdgesBatch ==
    /\ script = "attributes" /\ pc = "create_edges" /\ offset < Len(relationships)
    /\ edges' = edges \o Batch(relationships, offset, batch_size)
    /\ offset' = offset + batch_size
    /\ UNCHANGED << qryVars, parseVars, buildVars, intVars, script, pc, error, simVars, kind, cells, node_id, attr_threshold,
                    batch_size, idx, relationships, all_attrs, attr_nodes, shared_edges, embedVars >>

\* The builder of the course graph and the deliverables of the ENISA builder
\* end here; skills and knowledge go on to the shared-attribute query.
CreateEdgesDone ==
    /\ script = "attributes" /\ pc = "create_edges" /\ offset >= Len(relationships)
    /\ pc' = IF kind \in SharedKinds THEN "shared_query" ELSE "done"
    /\ UNCHANGED << qryVars, parseVars, buildVars, script, error, simVars, attrVars, intVars, embedVars >>

\* MATCH (p1)-[:HAS_SKILL]->(s)<-[:HAS_SKILL]-(p2): one row per pair of distinct
\* edges that end in the same attribute node.
MatchRows(p1, p2) ==
    { e \in (1 .. Len(edges)) \X (1 .. Len(edges)) :
        /\ e[1] # e[2]
        /\ edges[e[1]].source = p1
        /\ edges[e[2]].source = p2
        /\ edges[e[1]].attr = edges[e[2]].attr }

\* WHERE id(p1) < id(p2)
IdDiffers(p1, p2) == node_id[p1] # node_id[p2]
IdLess(p1, p2) == node_id[p1] < node_id[p2]

\* WITH p1, p2, COUNT(s) AS shared_skills
SharedCount(p1, p2) == Cardinality(MatchRows(p1, p2))

\* WHERE shared_skills >= $threshold
MeetsThresholdGt(c, t) == c > t
MeetsThreshold(c, t) == c >= t

\* The (p1, p2) groups the aggregation sees: the pairs with a matched row.
PairCandidates == { p \in Docs \X Docs : IdLess(p[1], p[2]) /\ SharedCount(p[1], p[2]) > 0 }

\* create_skill_similarity_relationships / create_knowledge_similarity_relationships
SharedQuery(t) ==
    { [ p1 |-> p[1], p2 |-> p[2], count |-> SharedCount(p[1], p[2]) ] :
        p \in { q \in PairCandidates : MeetsThreshold(SharedCount(q[1], q[2]), t) } }

CreateSharedRelationships ==
    /\ script = "attributes" /\ pc = "shared_query"
    /\ shared_edges' = shared_edges \cup SharedQuery(attr_threshold)
    /\ pc' = "done"
    /\ UNCHANGED << qryVars, parseVars, buildVars, intVars, script, error, simVars, kind, cells, node_id, attr_threshold,
                    batch_size, idx, relationships, all_attrs, attr_nodes, offset, edges, embedVars >>

\* ---------------------------------------------------------------- integration
\* toLower of one character and of a string.
LowerChar(c) == CASE c = "A" -> "a" [] c = "B" -> "b" [] OTHER -> c

ToLower(str) == [ n \in 1 .. Len(str) |-> LowerChar(str[n]) ]

\* text CONTAINS name
Contains(text, name) ==
    \E k \in 0 .. Len(text) - Len(name) : SubSeq(text, k + 1, k + Len(name)) = name

\* WHERE toLower(c.title) CONTAINS toLower(s.name)
\*    OR toLower(c.description) CONTAINS toLower(s.name)
Matches(name, course) ==
    \/ Contains(ToLower(course.title), ToLower(name))
    \/ Contains(ToLower(course.description), ToLower(name))

Profiles == 0 .. num_profiles - 1

CourseIds == 0 .. Len(courses) - 1

\* COUNT(DISTINCT s) of the rows (p)-[:HAS_SKILL]->(s), (c) that pass the WHERE.
MatchingRows(p, c) ==
    { m \in 1 .. Len(edges) : edges[m].source = p /\ Matches(edges[m].attr, courses[c + 1]) }
MatchingAttrs(p, c) ==
    { edges[n].attr : n \in { m \in 1 .. Len(edges) :
                                /\ edges[m].source = p
                                /\ Matches(edges[m].attr, courses[c + 1]) } }

\* WHERE matching_skills > 0
HasMatch(n) == n > 0

\* graph_status['enisa_graph'] and graph_status['course_graph']
GraphsExistEither == num_profiles > 0 \/ Len(courses) > 0
GraphsExist == num_profiles > 0 /\ Len(courses) > 0

\* check_graphs_exist and the two exits of main.
CheckGraphsExist ==
    /\ script = "integrate" /\ pc = "check_graphs"
    /\ IF GraphsExist
         THEN /\ pc' = "profile_course"
              /\ UNCHANGED << exit_status, closed >>
         ELSE /\ pc' = "done"
              /\ exit_status' = 1
              /\ closed' = TRUE
    /\ UNCHANGED << qryVars, parseVars, buildVars, script, error, simVars, attrVars, num_profiles, courses,
                    profile_course, attr_course, embedVars >>

\* create_profile_course_relationships_by_skill / _by_knowledge: the rows are
\* grouped by (p, c), so a group exists only where a row matched; MERGE adds
\* the edge unless one with the same count exists.
ProfileCourseGroups == { g \in Profiles \X CourseIds : MatchingAttrs(g[1], g[2]) # {} }

ProfileCourseQuery ==
    { [ profile |-> g[1], course |-> g[2], matching |-> Cardinality(MatchingAttrs(g[1], g[2])) ] :
        g \in { h \in ProfileCourseGroups : HasMatch(Cardinality(MatchingAttrs(h[1], h[2]))) } }

CreateProfileCourseRelationships ==
    /\ script = "integrate" /\ pc = "profile_course"
    /\ profile_course' = profile_course \cup ProfileCourseQuery
    /\ pc' = "attr_course"
    /\ UNCHANGED << qryVars, parseVars, buildVars, script, error, simVars, attrVars, num_profiles, courses,
                    attr_course, exit_status, closed, embedVars >>

\* create_skill_course_relationships / create_knowledge_course_relationships:
\* MERGE (s)-[:TAUGHT_IN]->(c) for every attribute node and matching course.
AttrCourseTitleOnly ==
    { e \in [ attr : attr_nodes, course : CourseIds ] :
        Contains(ToLower(courses[e.course + 1].title), ToLower(e.attr)) }
AttrCourseQuery ==
    { e \in [ attr : attr_nodes, course : CourseIds ] : Matches(e.attr, courses[e.course + 1]) }

CreateAttrCourseRelationships ==
    /\ script = "integrate" /\ pc = "attr_course"
    /\ attr_course' = attr_course \cup AttrCourseQuery
    /\ pc' = "finish"
    /\ UNCHANGED << qryVars, parseVars, buildVars, script, error, simVars, attrVars, num_profiles, courses,
                    profile_course, exit_status, closed, embedVars >>

\* The statistics are printed and the finally clause closes the connection.
FinishIntegration ==
    /\ script = "integrate" /\ pc = "finish"
    /\ exit_status' = 0
    /\ closed' = TRUE
    /\ pc' = "done"
    /\ UNCHANGED << qryVars, parseVars, buildVars, script, error, simVars, attrVars, num_profiles, courses,
                    profile_course, attr_course, embedVars >>

Next ==
    \/ PrepareCourses
    \/ ComputeSimilarityMatrix
    \/ ScanRow
    \/ CreateSimilarityRelationships
    \/ ExtractRow
    \/ CreateAttributeNodes
    \/ CreateEdgesBatch
    \/ CreateEdgesDone
    \/ CreateSharedRelationships
    \/ CheckGraphsExist
    \/ CreateProfileCourseRelationships
    \/ CreateAttrCourseRelationships
    \/ FinishIntegration

Spec == Init /\ [][Next]_vars

\* ---------------------------------------------------------------- repeated integration
\* The datasets the ENISA builder is run on again: one row per profile title
\* of the store, with the items parse_multiline_field finds in its attribute
\* cell: none or one.
Datasets(n) == [ 1 .. n -> { <<>> } \cup { << a >> : a \in Names } ]

\* The edges the relationship batches of that run add on a store that already
\* holds the n profiles and now holds a second node of every title: MATCH
\* (p:Profile {title: rel.profile_title}) finds both nodes, the old one d and
\* the new one n + d, and CREATE adds an edge for each.
RECURSIVE RebuiltEdges(_, _, _)
RebuiltEdges(dataset, n, d) ==
    IF d >= Len(dataset) THEN <<>>
    ELSE RowRelationships(d, dataset[d + 1])
            \o RowRelationships(n + d, dataset[d + 1])
            \o RebuiltEdges(dataset, n, d + 1)

\* create_neo4j_enisa_graph.py without --clear after a finished integration,
\* on an updated dataset of the same profiles, and integrate_graphs.py once
\* more.  Where the store holds the title constraint, batch_create_profiles
\* fails and the builder leaves the store as it was; where it does not (a
\* failure to create the constraint is only printed), CREATE adds a second
\* node per title and the relationship batches add their edges.  The
\* SHARES_..._WITH edges of the builder are not followed here.
RebuildProfiles ==
    /\ script = "integrate" /\ pc = "done" /\ exit_status = 0
    /\ cells = <<>>
    /\ \E dataset \in Datasets(num_profiles) : \E constraint \in BOOLEAN :
          /\ cells' = dataset
          /\ IF constraint
               THEN UNCHANGED << num_profiles, edges >>
               ELSE /\ num_profiles' = 2 * num_profiles
                    /\ edges' = edges \o RebuiltEdges(dataset, num_profiles, 0)
    /\ pc' = "check_graphs"
    /\ exit_status' = -1
    /\ closed' = FALSE
    /\ UNCHANGED << script, error, simVars, qryVars, parseVars, buildVars, embedVars,
                    kind, node_id, attr_threshold, batch_size, idx, relationships, all_attrs,
                    attr_nodes, offset, shared_edges, courses, profile_course, attr_course >>

NextRuns ==
    \/ CheckGraphsExist
    \/ CreateProfileCourseRelationships
    \/ CreateAttrCourseRelationships
    \/ FinishIntegration
    \/ RebuildProfiles

SpecRuns == InitIntegrate /\ [][NextRuns]_vars

\* ---------------------------------------------------------------- similarity, worked example
\* The rows [1, 0], [0.9, 0.1] and [0, 1]; the second one is written ten times
\* as long, which the row normalisation of cosine_similarity undoes.
ExampleVectors == { <<1, 0>>, <<9, 1>>, <<0, 1>> }

\* create_neo4j_graph.py on a finite matrix of these rows with one metadata
\* row per matrix row.
InitExample ==
    /\ script = "similarity"
    /\ pc = "prepare_courses"
    /\ error = "none"
    /\ EmbedIdle
    /\ embeddings \in SeqsUpTo(ExampleVectors, MaxRows)
    /\ finite = TRUE
    /\ metadata_rows = Len(embeddings)
    /\ top_k \in 0 .. MaxTopK
    /\ threshold \in Thresholds
    /\ similarity_matrix = <<>>
    /\ i = 0
    /\ sorted_indices = <<>>
    /\ similar_courses = <<>>
    /\ similarity_rels = <<>>
    /\ AttrIdle
    /\ IntIdle
    /\ QryIdle
    /\ ParseIdle
    /\ BuildIdle

NextSimilarity ==
    \/ PrepareCourses
    \/ ComputeSimilarityMatrix
    \/ ScanRow
    \/ CreateSimilarityRelationships

SpecExample == InitExample /\ [][NextSimilarity]_vars

\* ---------------------------------------------------------------- gap queries
\* Names of the Skill / Knowledge nodes of the store the queries run on, in
\* ascending order of the names.
NameOrder == << "s1", "s2" >>

GapNames == Range(NameOrder)

\* LIMIT 20 of the recommended-courses query.
Limit == 20

\* The number of Course nodes with a TAUGHT_IN edge: none, one, two, or enough
\* for the LIMIT to act.
CourseCounts == { 0, 1, 2 } \cup (Limit .. MaxPathCourses)

\* c.title of the Course nodes, as the rank of the title in ascending order:
\* every node has a title of its own, or nodes 0 and 1 carry the same one
\* (nothing keeps the titles of the dataset apart, and in cell mode every text
\* of a row becomes a node with the row's title).
TitleOf(c, same) == IF same /\ c = 1 THEN 0 ELSE c

\* TAUGHT_IN edges of the store: every course teaches "s1", the courses of
\* both teach "s2" as well.
TaughtIn(n, both) ==
    { [ attr |-> "s1", course |-> c ] : c \in 0 .. n - 1 }
        \cup { [ attr |-> "s2", course |-> c ] : c \in both }

\* The store a query runs on: Profile nodes 0 .. num_profiles - 1 (a profile
\* that is asked for and is not in the store is num_profiles) and their
\* HAS_SKILL / REQUIRES_KNOWLEDGE edges, an edge possibly twice.
InitStore ==
    /\ pc = "query"
    /\ error = "none"
    /\ EmbedIdle
    /\ SimIdle
    /\ profile_course = {}
    /\ exit_status = -1
    /\ closed = FALSE
    /\ kind = "none"
    /\ cells = <<>>
    /\ node_id = <<>>
    /\ attr_threshold = 0
    /\ batch_size = 1
    /\ idx = 0
    /\ relationships = <<>>
    /\ all_attrs = {}
    /\ attr_nodes = GapNames
    /\ offset = 0
    /\ shared_edges = {}
    /\ num_profiles \in 0 .. MaxDocs
    /\ edges \in SeqsUpTo([ source : 0 .. num_profiles - 1, attr : GapNames ], MaxGapEdges)
    /\ from_profile \in 0 .. num_profiles
    /\ to_profile \in 0 .. num_profiles
    /\ skill_gap = <<>>
    /\ missing_skills = <<>>
    /\ recommended_courses = {}
    /\ ParseIdle
    /\ BuildIdle

\* query_neo4j_enisa_graph.py --skill-gap / --knowledge-gap
InitGapQuery ==
    /\ script = "gap_query"
    /\ InitStore
    /\ courses = <<>>
    /\ attr_course = {}

\* integrate_graphs.py --career-pathway, after the matching steps
InitPathway ==
    /\ script = "pathway"
    /\ InitStore
    /\ num_profiles > 0                     \* check_graphs_exist has passed
    /\ \E n \in CourseCounts : \E both \in { {}, { 0 }, { n - 1 } } : \E same \in BOOLEAN :
          /\ both \subseteq 0 .. n - 1
          /\ same => n >= 2
          /\ courses = [ k \in 1 .. n |-> [ title |-> TitleOf(k - 1, same), description |-> <<>> ] ]
          /\ attr_course = TaughtIn(n, both)

InitQuery == InitGapQuery \/ InitPathway

\* MATCH (target:Profile {title: $to})-[:HAS_SKILL]->(s) WHERE NOT EXISTS
\* { MATCH (current:Profile {title: $from})-[:HAS_SKILL]->(s) }: one row per
\* edge of the target whose attribute no edge of the current profile reaches.
GapRows(from, to) ==
    { m \in 1 .. Len(edges) :
        /\ edges[m].source = to
        /\ ~\E n \in 1 .. Len(edges) : edges[n].source = from /\ edges[n].attr = edges[m].attr }

Repeat(x, n) == [ k \in 1 .. n |-> x ]

\* RETURN s.name ORDER BY s.name: the names of the rows, ascending.
RECURSIVE OrderByName(_, _)
OrderByName(rows, pos) ==
    IF pos > Len(NameOrder) THEN <<>>
    ELSE Repeat(NameOrder[pos], Cardinality({ m \in rows : edges[m].attr = NameOrder[pos] }))
            \o OrderByName(rows, pos + 1)

\* RETURN COLLECT(s.name) with no ORDER BY: the names of the rows in the order
\* the store matched them, which is any.
Collect(rows) ==
    { [ k \in 1 .. Cardinality(rows) |-> edges[p[k]].attr ] :
        p \in { q \in [ 1 .. Cardinality(rows) -> rows ] :
                  \A a, b \in 1 .. Cardinality(rows) : a # b => q[a] # q[b] } }

\* get_skill_gap / get_knowledge_gap
GetSkillGap ==
    /\ script = "gap_query" /\ pc = "query"
    /\ skill_gap' = OrderByName(GapRows(from_profile, to_profile), 1)
    /\ pc' = "done"
    /\ UNCHANGED << script, error, simVars, attrVars, intVars, parseVars, buildVars,
                    from_profile, to_profile, missing_skills, recommended_courses, embedVars >>

\* MATCH (s)-[:TAUGHT_IN]->(c:Course): the TAUGHT_IN edges a gap row reaches.
ReachedEdges(rows) == { f \in attr_course : \E m \in rows : edges[m].attr = f.attr }

\* RETURN DISTINCT c.title AS course_title, COLLECT(DISTINCT s.name): the rows
\* are grouped by the title, so there is one row per title a gap row reaches,
\* with the set of the names that reach a course of that title.
CourseRows(rows) ==
    { [ course_title |-> t,
        skills_covered |-> { e.attr : e \in { f \in ReachedEdges(rows) :
                                                courses[f.course + 1].title = t } } ] :
        t \in { courses[f.course + 1].title : f \in ReachedEdges(rows) } }

\* The ways to take k rows out of a result.
RECURSIVE Without(_, _)
Without(rows, k) ==
    IF k = 0 THEN { rows }
    ELSE UNION { Without(rows \ { g }, k - 1) : g \in rows }

\* LIMIT n with no ORDER BY: any n of the rows; the rows kept are held as a
\* set, their order being any.
LimitRows(rows, n) ==
    IF Cardinality(rows) <= n THEN { rows } ELSE Without(rows, Cardinality(rows) - n)

\* create_career_pathway_with_courses
CreateCareerPathwayWithCourses ==
    /\ script = "pathway" /\ pc = "query"
    /\ missing_skills' \in Collect(GapRows(from_profile, to_profile))
    /\ recommended_courses' \in LimitRows(CourseRows(GapRows(from_profile, to_profile)), Limit)
    /\ pc' = "done"
    /\ UNCHANGED << script, error, simVars, attrVars, intVars, parseVars, buildVars,
                    from_profile, to_profile, skill_gap, embedVars >>

NextQuery ==
    \/ GetSkillGap
    \/ CreateCareerPathwayWithCourses

SpecQuery == InitQuery /\ [][NextQuery]_vars

\* ---------------------------------------------------------------- parsers
\* A string is a sequence of characters.  A cell is a record of the type of
\* the value pandas read and of what str() makes of it.
NoneCell == [ type |-> "none", value |-> << "N", "o", "n", "e" >> ]

NaNCell == [ type |-> "nan", value |-> << "n", "a", "n" >> ]

StrCell(str) == [ type |-> "str", value |-> str ]

ListCell(list) == [ type |-> "list", value |-> list ]

\* The bullet glyphs parse_multiline_field strips: U+2022 and U+25CB, written
\* "bullet" and "circle" here, and the ASCII "-" and "*".
Glyphs == { "bullet", "-", "*", "circle" }

\* The characters the cells of each column draw from.

FieldChars == Glyphs \cup { " ", "\n", "x" }

SkillChars == { ",", " ", "\n", "x" }

CellChars == { ",", ";", " ", "x", "[", "]" }

\* The lists a cell of the analysed frame may hold, or ast.literal_eval may return.
Lists == SeqsUpTo({ <<>>, << " " >>, << "x" >>, << " ", "x" >> }, MaxList)

\* The values of a column: a missing value, a NaN and every string of up to
\* MaxLen characters.
CellValues(chars) == { NoneCell, NaNCell } \cup { StrCell(str) : str \in SeqsUpTo(chars, MaxLen) }

\* The missing, null and empty cells.
BlankCells == { NoneCell, NaNCell, StrCell(<<>>) }

\* The columns read: one row, or two rows one of which is blank.
Columns(values) ==
    { << c >> : c \in values }
        \cup { << c, d >> : c \in values, d \in BlankCells }
        \cup { << d, c >> : c \in values, d \in BlankCells }

IsSpace(c) == c \in { " ", "\n" }

\* str.strip()
Strip(str) ==
    LET inked == { k \in 1 .. Len(str) : ~IsSpace(str[k]) }
    IN  IF inked = {} THEN <<>>
        ELSE SubSeq(str, CHOOSE k \in inked : \A q \in inked : k <= q,
                         CHOOSE k \in inked : \A q \in inked : q <= k)

\* str.lstrip(g) for one character g
LStrip(str, g) ==
    LET others == { k \in 1 .. Len(str) : str[k] # g }
    IN  IF others = {} THEN <<>>
        ELSE SubSeq(str, CHOOSE k \in others : \A q \in others : k <= q, Len(str))

\* str.split(sep) / re.split on a class of one-character separators
RECURSIVE Split(_, _)
Split(str, seps) ==
    LET at == { k \in 1 .. Len(str) : str[k] \in seps }
    IN  IF at = {} THEN << str >>
        ELSE LET k == CHOOSE a \in at : \A q \in at : a <= q
             IN  << SubSeq(str, 1, k - 1) >> \o Split(SubSeq(str, k + 1, Len(str)), seps)

\* pd.isna(field_value) or not field_value
IsMissingNever(cell) == FALSE
IsMissing(cell) == cell.type \in { "none", "nan" } \/ cell.value = <<>>

\* if not item: continue  /  if s  /  if p.strip()
KeepEvery(item) == TRUE
KeepItem(item) == item # <<>>

\* item.strip(), then .lstrip(bullet).lstrip('-').lstrip('*').lstrip(circle).strip()
CleanItem(item) ==
    Strip(LStrip(LStrip(LStrip(LStrip(Strip(item), "bullet"), "-"), "*"), "circle"))

\* parse_multiline_field
ParseMultilineField(cell) ==
    IF IsMissing(cell) THEN <<>>
    ELSE LET items == Split(cell.value, { "\n" })
         IN  SelectSeq([ k \in 1 .. Len(items) |-> CleanItem(items[k]) ], KeepItem)

\* parse_skills
ParseSkills(cell) ==
    IF IsMissing(cell) THEN <<>>
    ELSE LET skills == Split(cell.value, { "," })
         IN  SelectSeq([ k \in 1 .. Len(skills) |-> Strip(skills[k]) ], KeepItem)

\* [str(x).strip() for x in parts if str(x).strip()]
StripAll(parts) == SelectSeq([ k \in 1 .. Len(parts) |-> Strip(parts[k]) ], KeepItem)

\* s.startswith("[") and s.endswith("]")
Bracketed(str) == Len(str) >= 1 /\ str[1] = "[" /\ str[Len(str)] = "]"

\* ast.literal_eval(s) of a bracketed string: an exception or a value that is
\* no list, or a list whose elements str() turns into strings; every outcome
\* is allowed for.
LiteralEval(str) ==
    { [ ok |-> FALSE, value |-> <<>> ] } \cup { [ ok |-> TRUE, value |-> list ] : list \in Lists }

\* parse_skills_cell, given what literal_eval does when it is called
ParseSkillsCell(cell, parsed) ==
    IF cell.type \in { "none", "nan" } THEN <<>>
    ELSE IF cell.type = "list" THEN StripAll(cell.value)
    ELSE LET str == Strip(cell.value)
         IN  IF str = <<>> THEN <<>>
             ELSE IF Bracketed(str) /\ parsed.ok THEN StripAll(parsed.value)
             ELSE StripAll(Split(str, { ";", "," }))

InitParse ==
    /\ script = "parse"
    /\ pc = "extract"
    /\ error = "none"
    /\ EmbedIdle
    /\ SimIdle
    /\ AttrIdle
    /\ IntIdle
    /\ QryIdle
    /\ BuildIdle
    /\ parser \in { "parse_multiline_field", "parse_skills", "parse_skills_cell" }
    /\ raw_cells \in CASE parser = "parse_multiline_field" -> Columns(CellValues(FieldChars))
                       [] parser = "parse_skills" -> Columns(CellValues(SkillChars))
                       [] OTHER -> Columns(CellValues(CellChars) \cup { ListCell(list) : list \in Lists })
    /\ parsed_items = <<>>

\* create_neo4j_enisa_graph.py, for idx, row in df.iterrows(): the items of the
\* cell go to the set of attributes and, one record each, to the relationships.
ExtractProfileAttributes ==
    /\ script = "parse" /\ parser = "parse_multiline_field" /\ idx < Len(raw_cells)
    /\ LET items == ParseMultilineField(raw_cells[idx + 1])
       IN  /\ parsed_items' = items
           /\ all_attrs' = all_attrs \cup Range(items)
           /\ relationships' = relationships \o RowRelationships(idx, items)
    /\ idx' = idx + 1
    /\ UNCHANGED << script, pc, error, simVars, intVars, qryVars, buildVars, raw_cells, parser,
                    kind, cells, node_id, attr_threshold, batch_size, attr_nodes, offset, edges,
                    shared_edges, embedVars >>

\* create_neo4j_graph.py, the same loop over extracted_skills with parse_skills
ExtractCourseSkills ==
    /\ script = "parse" /\ parser = "parse_skills" /\ idx < Len(raw_cells)
    /\ LET items == ParseSkills(raw_cells[idx + 1])
       IN  /\ parsed_items' = items
           /\ all_attrs' = all_attrs \cup Range(items)
           /\ relationships' = relationships \o RowRelationships(idx, items)
    /\ idx' = idx + 1
    /\ UNCHANGED << script, pc, error, simVars, intVars, qryVars, buildVars, raw_cells, parser,
                    kind, cells, node_id, attr_threshold, batch_size, attr_nodes, offset, edges,
                    shared_edges, embedVars >>

\* eda_courses.py, for cell in df["extracted_skills"]: parse_skills_cell(cell)
AnalyseSkillsCell ==
    /\ script = "parse" /\ parser = "parse_skills_cell" /\ idx < Len(raw_cells)
    /\ \E parsed \in LiteralEval(Strip(raw_cells[idx + 1].value)) :
          parsed_items' = ParseSkillsCell(raw_cells[idx + 1], parsed)
    /\ idx' = idx + 1
    /\ UNCHANGED << script, pc, error, simVars, intVars, qryVars, buildVars, raw_cells, parser,
                    kind, cells, node_id, attr_threshold, batch_size, relationships, all_attrs,
                    attr_nodes, offset, edges, shared_edges, embedVars >>

NextParse ==
    \/ ExtractProfileAttributes
    \/ ExtractCourseSkills
    \/ AnalyseSkillsCell

SpecParse == InitParse /\ [][NextParse]_vars

\* ---------------------------------------------------------------- batched writes
\* --batch-size is any integer (type=int): negative, zero or positive.
BatchSizes == -1 .. MaxBatch

\* The builders on an empty store: the rows of the dataset, the batch size,
\* and whether the store took the uniqueness constraint create_constraints
\* asked for (a failure to create it is only printed).
InitBuild ==
    /\ script = "build"
    /\ pc = "create_nodes"
    /\ error = "none"
    /\ EmbedIdle
    /\ SimIdle
    /\ IntIdle
    /\ QryIdle
    /\ ParseIdle
    /\ kind = "none"
    /\ cells \in SeqsUpTo(Cells, MaxDocs) \ { <<>> }
    /\ node_id = [ d \in 0 .. Len(cells) - 1 |-> d ]
    /\ attr_threshold = 0
    /\ batch_size \in BatchSizes
    /\ idx = 0
    /\ relationships = <<>>
    /\ all_attrs = {}
    /\ attr_nodes = {}
    /\ offset = 0
    /\ edges = <<>>
    /\ shared_edges = {}
    /\ node_count = [ d \in 0 .. Len(cells) - 1 |-> 0 ]
    /\ unique_keys \in BOOLEAN
    /\ skills_list = <<>>
    /\ submitted = <<>>
    /\ resubmits = 0

\* courses / profiles: one record per row, keyed course_id = idx (the course
\* builder) or title (the ENISA builder).
NodeKeys == [ k \in 1 .. NumDocs |-> k - 1 ]

\* How often key d occurs in a batch of node records.
Occurrences(batch, d) == Cardinality({ k \in 1 .. Len(batch) : batch[k] = d })

\* CREATE of a node whose key the store holds already, under the constraint.
ViolatesConstraint(batch) ==
    /\ unique_keys
    /\ \E k \in 1 .. Len(batch) : node_count[batch[k]] + Occurrences(batch, batch[k]) > 1

\* UNWIND $relationships AS rel MATCH (c {key: rel.source}) MATCH (s {name:
\* rel.attr}) CREATE (c)-[:HAS_SKILL]->(s): one edge per record and matched
\* pair of nodes.
RECURSIVE CreatedEdges(_)
CreatedEdges(batch) ==
    IF batch = <<>> THEN <<>>
    ELSE Repeat(Head(batch), IF Head(batch).attr \in attr_nodes
                               THEN node_count[Head(batch).source] ELSE 0)
            \o CreatedEdges(Tail(batch))

\* One batch_create_... call: what it does to the store.
RunBatch(call) ==
    IF call.op = "nodes"                     \* batch_create_courses / _profiles: CREATE
      THEN IF ViolatesConstraint(call.records)
             THEN /\ error' = "ConstraintError"
                  /\ UNCHANGED << node_count, attr_nodes, edges >>
             ELSE /\ node_count' = [ d \in DOMAIN node_count |->
                                       node_count[d] + Occurrences(call.records, d) ]
                  /\ UNCHANGED << error, attr_nodes, edges >>
    ELSE IF call.op = "attrs"                \* batch_create_skills / ...: MERGE
      THEN /\ attr_nodes' = attr_nodes \cup Range(call.records)
           /\ UNCHANGED << error, node_count, edges >>
    ELSE /\ edges' = edges \o CreatedEdges(call.records)     \* ..._relationships: CREATE
         /\ UNCHANGED << error, node_count, attr_nodes >>

\* for i in range(0, len(list), args.batch_size): batch = list[i:i + batch_size];
\* batch_create_...(batch).  range() refuses a step of 0 and is empty for a
\* negative one.
BatchLoop(list, op, after) ==
    IF batch_size = 0
      THEN /\ error' = "ValueError"
           /\ pc' = "done"
           /\ UNCHANGED << offset, submitted, node_count, attr_nodes, edges >>
    ELSE IF batch_size < 0 \/ offset >= Len(list)
      THEN /\ pc' = after
           /\ offset' = 0
           /\ UNCHANGED << error, submitted, node_count, attr_nodes, edges >>
    ELSE LET call == [ op |-> op, records |-> Batch(list, offset, batch_size) ]
         IN  /\ RunBatch(call)
             /\ submitted' = Append(submitted, call)
             /\ offset' = offset + batch_size
             /\ pc' = IF error' # "none" THEN "done" ELSE pc

CreateNodesLoop ==
    /\ script = "build" /\ pc = "create_nodes"
    /\ BatchLoop(NodeKeys, "nodes", "extract")
    /\ UNCHANGED << script, simVars, intVars, qryVars, parseVars, kind, cells, node_id,
                    attr_threshold, batch_size, idx, relationships, all_attrs, shared_edges,
                    unique_keys, skills_list, resubmits, embedVars >>

\* The relationship records of the rows from row d on.
RECURSIVE ExtractFrom(_)
ExtractFrom(d) ==
    IF d >= NumDocs THEN <<>>
    ELSE RowRelationships(d, ParseItems(cells[d + 1])) \o ExtractFrom(d + 1)

\* list(all_skills): the elements of the set in an order of the interpreter's.
ListOf(set) ==
    { q \in [ 1 .. Cardinality(set) -> set ] :
        \A a, b \in 1 .. Cardinality(set) : a # b => q[a] # q[b] }

\* The extraction loop over all rows, and skills_list = list(all_skills).
ExtractAll ==
    /\ script = "build" /\ pc = "extract"
    /\ relationships' = ExtractFrom(0)
    /\ all_attrs' = { relationships'[k].attr : k \in 1 .. Len(relationships') }
    /\ skills_list' \in ListOf(all_attrs')
    /\ idx' = NumDocs
    /\ pc' = "create_attrs"
    /\ UNCHANGED << script, error, simVars, intVars, qryVars, parseVars, kind, cells, node_id,
                    attr_threshold, batch_size, attr_nodes, offset, edges, shared_edges,
                    node_count, unique_keys, submitted, resubmits, embedVars >>

CreateAttrsLoop ==
    /\ script = "build" /\ pc = "create_attrs"
    /\ BatchLoop(skills_list, "attrs", "create_edges")
    /\ UNCHANGED << script, simVars, intVars, qryVars, parseVars, kind, cells, node_id,
                    attr_threshold, batch_size, idx, relationships, all_attrs, shared_edges,
                    unique_keys, skills_list, resubmits, embedVars >>

CreateEdgesLoop ==
    /\ script = "build" /\ pc = "create_edges"
    /\ BatchLoop(relationships, "edges", "done")
    /\ UNCHANGED << script, simVars, intVars, qryVars, parseVars, kind, cells, node_id,
                    attr_threshold, batch_size, idx, relationships, all_attrs, shared_edges,
                    unique_keys, skills_list, resubmits, embedVars >>

\* The batch call made last is made once more with the same batch, as a
\* caller that retries a write does.
Resubmit ==
    /\ script = "build" /\ pc # "done"
    /\ submitted # <<>> /\ resubmits < MaxResubmits
    /\ RunBatch(submitted[Len(submitted)])
    /\ submitted' = Append(submitted, submitted[Len(submitted)])
    /\ resubmits' = resubmits + 1
    /\ pc' = IF error' # "none" THEN "done" ELSE pc
    /\ UNCHANGED << script, simVars, intVars, qryVars, parseVars, kind, cells, node_id,
                    attr_threshold, batch_size, idx, relationships, all_attrs, offset,
                    shared_edges, unique_keys, skills_list, embedVars >>

NextBuild ==
    \/ CreateNodesLoop
    \/ ExtractAll
    \/ CreateAttrsLoop
    \/ CreateEdgesLoop
    \/ Resubmit

SpecBuild == InitBuild /\ [][NextBuild]_vars

\* ---------------------------------------------------------------- embeddings to course graph
\* create_embeddings.py, then create_neo4j_graph.py on the files it wrote and
\* on the same dataset.  The batches of the builder are those of the section
\* above; here every loop of batch calls is one step.

\* extracted_skills cells of the rows of the dataset.
CourseCells == { <<>>, <<"s1">>, <<"s1", "s2">> }

Modes == { "row", "cell" }

\* --sample is any integer (type=int).
Samples == -1 .. MaxSample

InitEmbed ==
    /\ script = "embed"
    /\ pc = "prepare_texts"
    /\ error = "none"
    /\ SimIdle
    /\ IntIdle
    /\ QryIdle
    /\ ParseIdle
    /\ BuildIdle
    /\ kind = "none"
    /\ \E n \in 0 .. MaxDocs :
          /\ text_cells \in [ 1 .. n -> 0 .. MaxCols ]
          /\ cells \in [ 1 .. n -> CourseCells ]
    /\ node_id = <<>>
    /\ attr_threshold = 0
    /\ batch_size = 1
    /\ idx = 0
    /\ relationships = <<>>
    /\ all_attrs = {}
    /\ attr_nodes = {}
    /\ offset = 0
    /\ edges = <<>>
    /\ shared_edges = {}
    /\ mode \in Modes
    /\ sample \in Samples
    /\ texts = <<>>
    /\ meta_rows = <<>>
    /\ metadata = <<>>

\* The texts row d gives.  Row mode: build_row_text joins the cells that hold
\* text, and the row is taken if the result is not blank.  Cell mode: one text
\* per cell that holds text.  A text is known by the row and the column it
\* came from (column 0: the whole row).
RowTexts(d) ==
    IF mode = "row"
      THEN IF text_cells[d + 1] > 0 THEN << [ row |-> d, column |-> 0 ] >> ELSE <<>>
      ELSE [ c \in 1 .. text_cells[d + 1] |-> [ row |-> d, column |-> c ] ]

\* meta_rows.append({"source": ..., "row_index": int(idx), "text": txt})
MetaRow(d, txt) == [ source |-> mode, row_index |-> d, text |-> txt ]

\* for idx, row in df.iterrows(): texts.append(txt); meta_rows.append({...})
PrepareTexts ==
    /\ script = "embed" /\ pc = "prepare_texts" /\ idx < Len(text_cells)
    /\ texts' = texts \o RowTexts(idx)
    /\ meta_rows' = meta_rows \o [ k \in 1 .. Len(RowTexts(idx)) |-> MetaRow(idx, RowTexts(idx)[k]) ]
    /\ idx' = idx + 1
    /\ UNCHANGED << script, pc, error, simVars, intVars, qryVars, parseVars, buildVars,
                    kind, cells, node_id, attr_threshold, batch_size, relationships, all_attrs,
                    attr_nodes, offset, edges, shared_edges, text_cells, mode, sample, metadata >>

\* list[: args.sample]
First(list, n) == SubSeq(list, 1, IF n <= Len(list) THEN n ELSE Len(list))

\* if args.sample and args.sample > 0
Sampled(list) == IF sample # 0 /\ sample > 0 THEN First(list, sample) ELSE list

\* model.encode: one vector per text, a function of the text.
Encode(txt) == [ vector_of |-> txt ]

\* The sampling, the exit when no text is left, encode_texts and the two files.
EncodeTexts ==
    /\ script = "embed" /\ pc = "prepare_texts" /\ idx >= Len(text_cells)
    /\ texts' = Sampled(texts)
    /\ meta_rows' = Sampled(meta_rows)
    /\ IF texts' = <<>>
         THEN /\ error' = "SystemExit"
              /\ pc' = "done"
              /\ UNCHANGED embeddings
         ELSE /\ embeddings' = [ k \in 1 .. Len(texts') |-> Encode(texts'[k]) ]
              /\ pc' = "load"
              /\ UNCHANGED error
    /\ UNCHANGED << script, intVars, qryVars, parseVars, buildVars, attrVars,
                    finite, metadata_rows, top_k, threshold, similarity_matrix, i,
                    sorted_indices, similar_courses, similarity_rels,
                    text_cells, mode, sample, metadata >>

\* pd.DataFrame(meta_rows).to_csv, then pd.read_csv: the rows in order, of
\* which the builder reads row_index.
ReadCsv(rows) == [ k \in 1 .. Len(rows) |-> [ row_index |-> rows[k].row_index, text |-> rows[k].text ] ]

\* load_embeddings
LoadEmbeddings ==
    /\ script = "embed" /\ pc = "load"
    /\ metadata' = ReadCsv(meta_rows)
    /\ pc' = "create_courses"
    /\ UNCHANGED << script, error, simVars, attrVars, intVars, qryVars, parseVars, buildVars,
                    text_cells, mode, sample, texts, meta_rows >>

\* 'embedding': embeddings[idx].tolist()
CourseEmbeddingFirst(n) == embeddings[1]
CourseEmbedding(n) == embeddings[n + 1]

\* for idx, row in metadata.iterrows(): course_data, and the Course nodes
\* the batches create from it.
CreateCourses ==
    /\ script = "embed" /\ pc = "create_courses"
    /\ courses' = [ k \in 1 .. Len(metadata) |->
                       [ course_id |-> k - 1,
                         row_index |-> metadata[k].row_index,
                         embedding |-> CourseEmbedding(k - 1) ] ]
    /\ pc' = "extract"
    /\ UNCHANGED << script, error, simVars, attrVars, qryVars, parseVars, buildVars, embedVars,
                    num_profiles, profile_course, attr_course, exit_status, closed >>

\* for idx, row in df.iterrows(): course_skills.append({'course_id': int(idx),
\* 'skill': skill}), over all rows of the dataset.
ExtractSkills ==
    /\ script = "embed" /\ pc = "extract"
    /\ relationships' = ExtractFrom(0)
    /\ all_attrs' = { relationships'[k].attr : k \in 1 .. Len(relationships') }
    /\ pc' = "create_skills"
    /\ UNCHANGED << script, error, simVars, intVars, qryVars, parseVars, buildVars, embedVars,
                    kind, cells, node_id, attr_threshold, batch_size, idx, attr_nodes, offset,
                    edges, shared_edges >>

\* batch_create_skills over list(all_skills): MERGE
CreateSkills ==
    /\ script = "embed" /\ pc = "create_skills"
    /\ attr_nodes' = attr_nodes \cup all_attrs
    /\ pc' = "create_relationships"
    /\ UNCHANGED << script, error, simVars, intVars, qryVars, parseVars, buildVars, embedVars,
                    kind, cells, node_id, attr_threshold, batch_size, idx, relationships,
                    all_attrs, offset, edges, shared_edges >>

\* MATCH (c:Course {course_id: rel.course_id}) MATCH (s:Skill {name: rel.skill})
HasEndpoints(rel) ==
    /\ \E k \in 1 .. Len(courses) : courses[k].course_id = rel.source
    /\ rel.attr \in attr_nodes

\* batch_create_course_skill_relationships over course_skills: CREATE adds
\* an edge for the records whose two MATCHes find a node.
CreateCourseSkillRelationships ==
    /\ script = "embed" /\ pc = "create_relationships"
    /\ edges' = edges \o SelectSeq(relationships, HasEndpoints)
    /\ pc' = "done"
    /\ UNCHANGED << script, error, simVars, intVars, qryVars, parseVars, buildVars, embedVars,
                    kind, cells, node_id, attr_threshold, batch_size, idx, relationships,
                    all_attrs, attr_nodes, offset, shared_edges >>

NextEmbed ==
    \/ PrepareTexts
    \/ EncodeTexts
    \/ LoadEmbeddings
    \/ CreateCourses
    \/ ExtractSkills
    \/ CreateSkills
    \/ CreateCourseSkillRelationships

SpecEmbed == InitEmbed /\ [][NextEmbed]_vars

\* ---------------------------------------------------------------- properties
Score(a, b) == similarity_matrix[a][b]

\* Positions of similar_courses whose source is a.
TriplesOf(a) == { n \in 1 .. Len(similar_courses) : similar_courses[n][1] = a }

TargetsOf(a) == { similar_courses[n][2] : n \in TriplesOf(a) }

\* The targets eligible for source a: every other index scoring at least the threshold.
Eligible(a) == { b \in RowIndices \ {a} : ~Lt(Score(a, b), threshold) }

\* Row a of the outer loop is finished.
RowFinished(a) == script = "similarity" /\ error = "none"
                  /\ similarity_matrix # <<>> /\ a \in RowIndices
                  /\ (a < i \/ pc = "done")

\* The run was given what the similarity step expects: a finite matrix with
\* one row per metadata row.
WellFormedInput == finite /\ metadata_rows = NumRows

Min(a, b) == IF a <= b THEN a ELSE b

\* C1: with N >= 2 rows and k >= 1, get_top_similar_courses returns at most k
\* triples per source index, no triple with target = source, and every returned
\* score is the matrix entry of the pair and is >= threshold.
C1_TopKBounded ==
    (script = "similarity" /\ NumRows >= 2 /\ top_k >= 1) =>
        /\ \A a \in RowIndices : Cardinality(TriplesOf(a)) <= top_k
        /\ \A n \in 1 .. Len(similar_courses) :
              /\ similar_courses[n][1] # similar_courses[n][2]
              /\ similar_courses[n][3] = Score(similar_courses[n][1], similar_courses[n][2])
              /\ ~Lt(similar_courses[n][3], threshold)

\* A finished run in which the cap was reached for a source that had more
\* eligible targets than k.
C1_Witness ==
    /\ script = "similarity" /\ pc = "done" /\ error = "none"
    /\ NumRows >= 2 /\ top_k >= 1
    /\ \E a \in RowIndices : /\ Cardinality(TriplesOf(a)) = top_k
                             /\ Cardinality(Eligible(a)) > top_k

\* C2: for every finished source the returned targets are min(k, E) distinct
\* eligible targets (E the number of eligible ones), in non-increasing score
\* order, and no omitted eligible target scores strictly higher than a
\* returned one.
C2_TopKExact ==
    \A a \in RowIndices : RowFinished(a) =>
        /\ Cardinality(TriplesOf(a)) = Min(top_k, Cardinality(Eligible(a)))
        /\ Cardinality(TargetsOf(a)) = Cardinality(TriplesOf(a))
        /\ TargetsOf(a) \subseteq Eligible(a)
        /\ \A b \in Eligible(a) \ TargetsOf(a) : \A c \in TargetsOf(a) :
              Le(Score(a, b), Score(a, c))
        /\ \A m, n \in TriplesOf(a) :
              m < n => Le(similar_courses[n][3], similar_courses[m][3])

\* A finished run with a source that has an omitted eligible target scoring
\* strictly lower than a returned one.
C2_Witness ==
    /\ script = "similarity" /\ pc = "done" /\ error = "none" /\ top_k >= 1
    /\ \E a \in RowIndices : \E b \in Eligible(a) \ TargetsOf(a) : \E c \in TargetsOf(a) :
          Lt(Score(a, b), Score(a, c))

\* Position of the triple (a, b, _) in similar_courses, 0 when absent.
PosOf(a, b) ==
    LET ps == { n \in TriplesOf(a) : similar_courses[n][2] = b }
    IN  IF ps = {} THEN 0 ELSE CHOOSE n \in ps : TRUE

\* C3: when two targets j1 < j2 score the same for source i, j1 is ordered
\* before j2: if j2 is returned then j1 is returned, at an earlier position
\* (stated of the runs on a well-formed input).
C3_TiesAscendingIndex ==
    \A a \in RowIndices : (RowFinished(a) /\ WellFormedInput) =>
        \A j1, j2 \in RowIndices \ {a} :
            (j1 < j2 /\ Eq(Score(a, j1), Score(a, j2)) /\ PosOf(a, j2) # 0) =>
                (PosOf(a, j1) # 0 /\ PosOf(a, j1) < PosOf(a, j2))

\* C4: similar_courses is grouped by source index in ascending order, and
\* within one source the scores are non-increasing.
C4_GroupedOrdered ==
    script = "similarity" =>
        \A m, n \in 1 .. Len(similar_courses) : m < n =>
            /\ similar_courses[m][1] <= similar_courses[n][1]
            /\ similar_courses[m][1] = similar_courses[n][1] =>
                  Le(similar_courses[n][3], similar_courses[m][3])

\* A finished run with triples of two sources, one of them with two triples
\* of strictly decreasing score.
C4_Witness ==
    /\ script = "similarity" /\ pc = "done"
    /\ \E m, n \in 1 .. Len(similar_courses) :
          m < n /\ similar_courses[m][1] < similar_courses[n][1]
    /\ \E m, n \in 1 .. Len(similar_courses) :
          /\ m < n /\ similar_courses[m][1] = similar_courses[n][1]
          /\ Lt(similar_courses[n][3], similar_courses[m][3])

\* C5: a similarity step called with k < 1, with fewer than 2 rows, with a
\* non-finite value or with a row count different from the metadata's ends
\* with an error (whatever exception the program raises is taken for the
\* InvalidInputError) and emits no similarity association.
C5_InvalidInputRejected ==
    (script = "similarity" /\ pc = "done"
       /\ (top_k < 1 \/ NumRows < 2 \/ ~finite \/ NumRows # metadata_rows)) =>
        /\ error # "none"
        /\ similarity_rels = <<>>

\* ---------------------------------------------------------------- associations
\* The first top_k targets other than a in the scan order of row a: the pairs
\* the top-k selection passes on to the threshold filter.
RECURSIVE FirstOthers(_, _, _)
FirstOthers(order, a, n) ==
    IF n = 0 \/ order = <<>> THEN {}
    ELSE IF Head(order) = a THEN FirstOthers(Tail(order), a, n)
    ELSE { Head(order) } \cup FirstOthers(Tail(order), a, n - 1)

\* The outer loop has just left row i - 1, whose scan order sorted_indices still holds.
RowJustFinished == script = "similarity" /\ error = "none" /\ pc = "row" /\ i >= 1

Zero == <<0, 1>>

\* C6: every emitted association has a strictly positive weight, for every
\* threshold: no SIMILAR_TO score, no SHARES_SKILLS_WITH / SHARES_KNOWLEDGE_WITH
\* count and no RELEVANT_COURSE / TEACHES_KNOWLEDGE match count is <= 0.
C6_PositiveWeights ==
    /\ WellFormedInput => \A n \in 1 .. Len(similarity_rels) : Lt(Zero, similarity_rels[n][3])
    /\ \A e \in shared_edges : e.count > 0
    /\ \A e \in profile_course : e.matching > 0

\* C7: no association pairs a document with itself: no triple (i, i, score) and
\* no shared-attribute edge from a profile to itself.
C7_NoSelfAssociation ==
    /\ \A n \in 1 .. Len(similar_courses) : similar_courses[n][1] # similar_courses[n][2]
    /\ \A n \in 1 .. Len(similarity_rels) : similarity_rels[n][1] # similarity_rels[n][2]
    /\ \A e \in shared_edges : e.p1 # e.p2

\* A finished similarity run that emitted associations although every row of
\* the matrix scores highest with itself.
C7_Witness ==
    /\ script = "similarity" /\ pc = "done" /\ similarity_rels # <<>>
    /\ \A a \in RowIndices : \A c \in RowIndices : Le(Score(a, c), Score(a, a))

C9_InclusiveThreshold ==
    /\ (script = "attributes" /\ pc = "done" /\ kind \in SharedKinds) =>
          \A p \in PairCandidates :
              ([ p1 |-> p[1], p2 |-> p[2], count |-> SharedCount(p[1], p[2]) ] \in shared_edges)
                  <=> SharedCount(p[1], p[2]) >= attr_threshold
    /\ RowJustFinished =>
          \A c \in FirstOthers(sorted_indices, i - 1, top_k) :
              (c \in TargetsOf(i - 1)) <=> ~Lt(Score(i - 1, c), threshold)
    /\ \A a \in RowIndices : RowFinished(a) =>
          \A c \in RowIndices \ {a} :
              /\ Lt(Score(a, c), threshold) => c \notin TargetsOf(a)
              /\ Eq(Score(a, c), threshold) =>
                    (c \in TargetsOf(a) \/ Cardinality(TriplesOf(a)) = top_k)

\* A row that kept a pair scoring exactly the threshold and dropped one below it.
C9_Witness ==
    /\ RowJustFinished
    /\ \E c \in TargetsOf(i - 1) : Eq(Score(i - 1, c), threshold)
    /\ \E c \in FirstOthers(sorted_indices, i - 1, top_k) : Lt(Score(i - 1, c), threshold)

\* C10: the associations a builder emits for one relation type hold each
\* (source, target) pair at most once: no two attribute edges it creates in
\* the store agree in source and attribute.
C10_NoDuplicatePairs ==
    script = "attributes" =>
        \A m, n \in 1 .. Len(edges) : m # n => edges[m] # edges[n]

\* ---------------------------------------------------------------- keyword matching
\* A string without its leading and trailing blanks.
Trim(str) ==
    LET inked == { p \in 1 .. Len(str) : str[p] # " " }
    IN  IF inked = {} THEN <<>>
        ELSE SubSeq(str, CHOOSE p \in inked : \A q \in inked : p <= q,
                         CHOOSE p \in inked : \A q \in inked : q <= p)

\* The matching rule as documented: the trimmed, lower-cased name is a
\* substring of the lower-cased concatenation of title and description.
MatchesConcatenated(name, course) ==
    Contains(ToLower(course.title \o course.description), ToLower(Trim(name)))

\* The integration has run its matching queries.
Matched == script = "integrate" /\ pc \in { "finish", "done" } /\ exit_status # 1

\* C11: an attribute is linked to a course (TAUGHT_IN / COVERED_IN) if and only
\* if its trimmed, lower-cased name is a substring of the lower-cased
\* concatenation of the course's title and description, a name found only
\* across the boundary of the two fields included.
C11_MatchIffConcatenated ==
    Matched =>
        \A a \in attr_nodes : \A c \in CourseIds :
            ([ attr |-> a, course |-> c ] \in attr_course) <=> MatchesConcatenated(a, courses[c + 1])

\* The attributes profile p is linked to, by one edge or several.
AttrsOf(p) == { a \in attr_nodes : \E n \in 1 .. Len(edges) : edges[n] = [ source |-> p, attr |-> a ] }

\* C12: the count stored on a profile-to-course association is the number of
\* distinct attributes of the profile that the matching test links to the
\* course; an attribute held by several edges or found in both fields counts
\* once, and a pair has at most one association.
C12_DistinctMatchCount ==
    Matched =>
        \A p \in Profiles : \A c \in CourseIds :
            LET matching == { a \in AttrsOf(p) : Matches(a, courses[c + 1]) }
            IN  /\ matching # {} =>
                      [ profile |-> p, course |-> c, matching |-> Cardinality(matching) ] \in profile_course
                /\ \A e \in profile_course :
                      (e.profile = p /\ e.course = c) => e.matching = Cardinality(matching)

\* An association with count 1 for a profile linked twice to one attribute
\* whose name is found in the title and in the description of the course.
C12_Witness ==
    /\ Matched
    /\ \E e \in profile_course :
          /\ e.matching = 1
          /\ \E m, n \in 1 .. Len(edges) :
                /\ m # n /\ edges[m] = edges[n] /\ edges[m].source = e.profile
                /\ Contains(ToLower(courses[e.course + 1].title), ToLower(edges[m].attr))
                /\ Contains(ToLower(courses[e.course + 1].description), ToLower(edges[m].attr))

\* ---------------------------------------------------------------- gaps
\* The attributes a profile is linked to; none for a profile not in the store.
ProfileAttrs(p) == { edges[n].attr : n \in { m \in 1 .. Len(edges) : edges[m].source = p } }

\* The names of a set, each once, ascending.
Sorted(names) == SelectSeq(NameOrder, LAMBDA x : x \in names)

GapQueryDone == script = "gap_query" /\ pc = "done"

PathwayDone == script = "pathway" /\ pc = "done"

\* The store holds no attribute edge twice.
NoEdgeTwice == \A m, n \in 1 .. Len(edges) : m # n => edges[m] # edges[n]

\* C13: every gap operation returns target_attrs minus source_attrs, each
\* attribute once, sorted ascending (so the gap is empty iff the target's
\* attributes are a subset of the source's, and the gap of an empty source is
\* the sorted target attributes); stated of the stores that hold no
\* attribute edge twice.
C13_GapSortedDifference ==
    LET gap == Sorted(ProfileAttrs(to_profile) \ ProfileAttrs(from_profile))
    IN  NoEdgeTwice =>
            /\ GapQueryDone => skill_gap = gap
            /\ PathwayDone => missing_skills = gap

\* The number of gap attributes a returned or omitted course row covers.
Covered(row) == Cardinality(row.skills_covered)

\* C14: the recommended courses are at most the maximum result count and are
\* the first ones by descending number of covered gap attributes, ties by
\* ascending course identifier: every course left out comes after every
\* course kept.
C14_CappedBestFirst ==
    PathwayDone =>
        /\ Cardinality(recommended_courses) <= Limit
        /\ \A kept \in recommended_courses :
              \A out \in CourseRows(GapRows(from_profile, to_profile)) \ recommended_courses :
                  \/ Covered(out) < Covered(kept)
                  \/ Covered(out) = Covered(kept) /\ kept.course_title < out.course_title

\* C15: when the current profile, the target profile or both are not in the
\* store, the gap operations and the recommended courses are empty and no
\* error is raised.
C15_MissingProfileEmpty ==
    (from_profile \notin Profiles \/ to_profile \notin Profiles) =>
        /\ GapQueryDone => skill_gap = <<>> /\ error = "none"
        /\ PathwayDone => missing_skills = <<>> /\ recommended_courses = {} /\ error = "none"

\* ---------------------------------------------------------------- labels
\* The row read last and the parser it was given to.
ParsedBy(name) == script = "parse" /\ parser = name /\ idx >= 1

\* C16: no item parse_multiline_field returns begins with a bullet glyph or
\* with whitespace, whatever the order or mix of the glyphs at the start of
\* the segment.
C16_BulletsStripped ==
    ParsedBy("parse_multiline_field") =>
        \A k \in 1 .. Len(parsed_items) :
            /\ parsed_items[k] # <<>>
            /\ parsed_items[k][1] \notin Glyphs
            /\ ~IsSpace(parsed_items[k][1])

\* A label with a character that is no whitespace.
HasInk(label) == \E k \in 1 .. Len(label) : ~IsSpace(label[k])

\* C17: no label a parser returns is empty or whitespace-only, and so no
\* attribute name and no relationship record the builders collect is.
C17_NoEmptyLabel ==
    script = "parse" =>
        /\ \A k \in 1 .. Len(parsed_items) : HasInk(parsed_items[k])
        /\ \A a \in all_attrs : HasInk(a)
        /\ \A k \in 1 .. Len(relationships) : HasInk(relationships[k].attr)

\* A parser has returned labels for a cell of which it dropped a blank segment.
C17_Witness ==
    /\ \E name \in { "parse_multiline_field", "parse_skills", "parse_skills_cell" } :
          /\ ParsedBy(name)
          /\ raw_cells[idx].type = "str"
          /\ parsed_items # <<>>
          /\ Len(Split(raw_cells[idx].value, { "\n", ",", ";" })) > Len(parsed_items)
          /\ name = "parse_multiline_field" => all_attrs # {}

\* C18: a missing, NaN or empty cell makes parse_multiline_field and
\* parse_skills return the empty list without an error, and the row adds no
\* attribute and no relationship record; the loop goes on to the next row.
C18_BlankCellSkipped ==
    [][ (/\ script = "parse"
         /\ parser \in { "parse_multiline_field", "parse_skills" }
         /\ idx < Len(raw_cells)
         /\ raw_cells[idx + 1] \in BlankCells)
            => /\ parsed_items' = <<>>
               /\ error' = "none"
               /\ all_attrs' = all_attrs
               /\ relationships' = relationships
               /\ idx' = idx + 1 ]_vars

\* A blank first row was passed over and the second row gave its items.
C18_Witness ==
    /\ script = "parse" /\ parser \in { "parse_multiline_field", "parse_skills" }
    /\ idx = 2
    /\ raw_cells[1] \in BlankCells
    /\ relationships # <<>>
    /\ \A k \in 1 .. Len(relationships) : relationships[k].source = 1

\* ---------------------------------------------------------------- batches
\* C19: submitting a batch the builder generated once more leaves the graph
\* as it was: no node and no edge is added (stated of the stores that hold
\* the uniqueness constraint on the node key).
C19_ResubmitIdempotent ==
    [][ (script = "build" /\ unique_keys /\ resubmits' > resubmits)
            => (node_count' = node_count /\ attr_nodes' = attr_nodes /\ edges' = edges) ]_vars

\* The records of the batch calls of one kind, concatenated in submission order.
RECURSIVE SubmittedRecords(_, _)
SubmittedRecords(op, n) ==
    IF n = 0 THEN <<>>
    ELSE SubmittedRecords(op, n - 1) \o (IF submitted[n].op = op THEN submitted[n].records ELSE <<>>)

\* C20: for every batch size the caller can pass, the batches submitted,
\* concatenated in submission order, are the full candidate list of nodes, of
\* attributes and of relationship records, and the run ends with the graph
\* that holds every candidate once (stated of the runs that repeat no call).
C20_BatchesCoverList ==
    (script = "build" /\ pc = "done" /\ resubmits = 0) =>
        /\ error = "none"
        /\ SubmittedRecords("nodes", Len(submitted)) = NodeKeys
        /\ SubmittedRecords("attrs", Len(submitted)) = skills_list
        /\ SubmittedRecords("edges", Len(submitted)) = ExtractFrom(0)
        /\ \A d \in Docs : node_count[d] = 1
        /\ attr_nodes = { ExtractFrom(0)[k].attr : k \in 1 .. Len(ExtractFrom(0)) }
        /\ edges = ExtractFrom(0)

\* ---------------------------------------------------------------- repeated runs
\* Both profiles of the pathway are in the store.
BothInStore == from_profile \in Profiles /\ to_profile \in Profiles

\* C21: a second run on the same store returns what the first one returned:
\* the missing_skills list and the recommended courses of a career pathway
\* are the only ones the queries can return on that store, whatever the order
\* in which the store matches its nodes (stated of the stores that hold both
\* profiles and no attribute edge twice).
C21_SameStoreSameOutput ==
    (PathwayDone /\ NoEdgeTwice /\ BothInStore) =>
        /\ \A other \in Collect(GapRows(from_profile, to_profile)) : other = missing_skills
        /\ \A other \in LimitRows(CourseRows(GapRows(from_profile, to_profile)), Limit) :
              other = recommended_courses

\* ---------------------------------------------------------------- pathway entries
\* The Course nodes a TAUGHT_IN edge from a missing skill reaches.
GapCourses == { f.course : f \in ReachedEdges(GapRows(from_profile, to_profile)) }

\* C29: every recommended entry covers a non-empty subset of missing_skills,
\* stands for exactly one course, and every course a missing skill is taught
\* in has an entry whenever there are fewer such courses than the LIMIT
\* (stated of the stores that hold both profiles).
C29_OneEntryPerCourse ==
    (PathwayDone /\ BothInStore) =>
        /\ \A r \in recommended_courses :
              /\ r.skills_covered # {}
              /\ r.skills_covered \subseteq Range(missing_skills)
              /\ Cardinality({ c \in GapCourses : courses[c + 1].title = r.course_title }) = 1
        /\ Cardinality(GapCourses) < Limit =>
              \A c \in GapCourses : \E r \in recommended_courses : r.course_title = courses[c + 1].title

\* ---------------------------------------------------------------- worked example
\* The run of the example: rows [1, 0], [0.9, 0.1], [0, 1], k = 1, threshold 0.5.
ExampleRun ==
    /\ script = "similarity"
    /\ embeddings = << <<1, 0>>, <<9, 1>>, <<0, 1>> >>
    /\ top_k = 1
    /\ threshold = <<1, 4>>

\* C22: in the run of the example the similarity step returns document 1 as
\* the only neighbour of document 0, document 0 as the only neighbour of
\* document 1, and no triple with source document 2.
C22_ExampleNeighbours ==
    (ExampleRun /\ pc = "done") =>
        /\ error = "none"
        /\ Len(similar_courses) = 2
        /\ similar_courses[1][1] = 0 /\ similar_courses[1][2] = 1
        /\ similar_courses[2][1] = 1 /\ similar_courses[2][2] = 0
        /\ TriplesOf(2) = {}

\* The run of the example has finished and has handed the two triples, both
\* scoring 0.9 / sqrt(0.82), to the store.
C22_Witness ==
    /\ ExampleRun /\ pc = "done"
    /\ Len(similarity_rels) = 2
    /\ \A n \in 1 .. 2 : similarity_rels[n][3] = <<81, 82>>

\* ---------------------------------------------------------------- matrix and metadata
\* C24: the embedding matrix and the metadata have the same length and agree
\* index by index: texts and meta_rows grow and are sampled together, row k
\* of the matrix is the vector of the text of metadata row k, and the Course
\* node built from metadata row idx carries embeddings[idx].
C24_MatrixAlignsWithMetadata ==
    script = "embed" =>
        /\ Len(texts) = Len(meta_rows)
        /\ \A k \in 1 .. Len(texts) : meta_rows[k].text = texts[k]
        /\ embeddings # <<>> =>
              /\ Len(embeddings) = Len(meta_rows)
              /\ \A k \in 1 .. Len(embeddings) : embeddings[k] = Encode(meta_rows[k].text)
        /\ courses # <<>> =>
              /\ Len(courses) = Len(embeddings)
              /\ \A k \in 1 .. Len(courses) :
                    /\ courses[k].row_index = metadata[k].row_index
                    /\ courses[k].embedding = Encode(metadata[k].text)

\* A finished run in cell mode in which --sample cut the texts down to two,
\* texts of different rows, and the builder made a Course node of each.
C24_Witness ==
    /\ script = "embed" /\ pc = "done" /\ error = "none"
    /\ mode = "cell" /\ sample = 2
    /\ text_cells = << 1, 2 >>
    /\ Len(courses) = 2
    /\ courses[1].row_index # courses[2].row_index

\* C26: every HAS_SKILL edge of the course graph starts at the Course node
\* built from the dataset row the skill was parsed from: the node whose
\* course_id the record names has that row as its row_index.
C26_SkillEdgeAtOwnRow ==
    script = "embed" =>
        \A n \in 1 .. Len(edges) : \A k \in 1 .. Len(courses) :
            courses[k].course_id = edges[n].source => courses[k].row_index = edges[n].source

\* C27: when the edges are submitted both endpoints of every prepared record
\* have been submitted, and at the end every prepared (course, skill) pair is
\* an edge of the store.
C27_NoPairDropped ==
    (script = "embed" /\ error = "none") =>
        /\ pc \in { "create_relationships", "done" } =>
              \A k \in 1 .. Len(relationships) : HasEndpoints(relationships[k])
        /\ pc = "done" => edges = relationships

\* ---------------------------------------------------------------- shared attributes
\* The attributes the cell of row d lists, each once.
ListedAttrs(d) == Range(ParseItems(cells[d + 1]))

\* C25: the count stored on a SHARES_SKILLS_WITH / SHARES_KNOWLEDGE_WITH edge
\* between two profiles is the number of distinct attributes both profiles
\* list, also when a cell lists an attribute more than once.
C25_CountsDistinctShared ==
    script = "attributes" =>
        \A e \in shared_edges :
            e.count = Cardinality(ListedAttrs(e.p1) \cap ListedAttrs(e.p2))

\* ---------------------------------------------------------------- one integration run
\* The attributes of profile p that have an attribute-to-course edge to c.
TaughtAttrs(p, c) == { a \in AttrsOf(p) : [ attr |-> a, course |-> c ] \in attr_course }

\* C28: after one integration run on a graph without integration edges, a
\* profile-to-course edge p -> c exists if and only if some attribute of p has
\* an attribute-to-course edge to c, and its count is the number of distinct
\* such attributes.
C28_RelevantIffTaught ==
    Matched =>
        \A p \in Profiles : \A c \in CourseIds :
            /\ (\E e \in profile_course : e.profile = p /\ e.course = c) <=> TaughtAttrs(p, c) # {}
            /\ \A e \in profile_course :
                  (e.profile = p /\ e.course = c) => e.matching = Cardinality(TaughtAttrs(p, c))

\* A finished run of the skill matching with a profile of two skills, one of
\* them taught in the course, and the edge of count 1 it gives.
C28_Witness ==
    /\ Matched /\ pc = "done" /\ kind = "skill"
    /\ \E e \in profile_course :
          /\ e.matching = 1
          /\ Cardinality(AttrsOf(e.profile)) = 2
          /\ Cardinality(TaughtAttrs(e.profile, e.course)) = 1

\* C30: the integration creates no relationship unless the store holds a
\* Profile node and a Course node: when either is missing the run ends with
\* exit status 1, no edge created and the connection closed.
C30_NoGraphNoRelationship ==
    (script = "integrate" /\ (num_profiles = 0 \/ Len(courses) = 0)) =>
        /\ profile_course = {}
        /\ attr_course = {}
        /\ pc # "check_graphs" => (pc = "done" /\ exit_status = 1 /\ closed)

\* The run has stopped on a store with profiles, attribute edges and no course.
C30_Witness ==
    /\ script = "integrate" /\ pc = "done"
    /\ num_profiles > 0 /\ edges # <<>> /\ Len(courses) = 0
    /\ exit_status = 1 /\ closed

\* ---------------------------------------------------------------- integration edges
\* C23: after any sequence of graph builds and integration runs the store
\* holds at most one edge per source, target and relation type written by
\* the integration, also when the matching attributes of a profile change
\* between two runs.
C23_OneEdgePerPair ==
    script = "integrate" =>
        /\ \A e, f \in profile_course : (e.profile = f.profile /\ e.course = f.course) => e = f
        /\ \A e, f \in attr_course : (e.attr = f.attr /\ e.course = f.course) => e = f

====
